---- MODULE Spec2Model ----
(***************************************************************************)
(* Masked auto-encoder core of src/mae.py: the patch codec, the random and *)
(* grid masking strategies, the encoder/decoder sequence bookkeeping, the  *)
(* loss functions and their pseudo-random key thread.                      *)
(*                                                                         *)
(* Tensors are records [shape |-> <<d1, ..., dk>>, data |-> flat sequence  *)
(* in row-major order], so that reshape keeps the data and einsum permutes *)
(* it.  Pixel and token values are abstract tags.                          *)
(***************************************************************************)
EXTENDS Integers, Sequences, FiniteSets, TLC

VARIABLES op, args, ret, key, used, step

vars == <<op, args, ret, key, used, step>>

(* ------------------------------ bounds -------------------------------- *)
MaxB == 2          \* samples in a batch
MaxH == 4          \* image side
MaxShift == 2      \* distinct test images per side
MaxL == 4          \* sequence length handed to random_masking
MaxNoise == 2      \* noise values are 0..MaxNoise
MaxCells == 6      \* noise entries drawn in one batched call
MaxExp == 2        \* mask ratios are num / 2^e with e <= MaxExp
MaxGrid == 8       \* side of the patch grid handed to grid_masking
MaxSide == 4       \* side of the patch grid in a forward pass
MaxPatch == 2      \* patch size in a forward pass
MaxErr == 1        \* per-patch squared errors are 0..MaxErr
MaxLogit == 1      \* logits are 0..MaxLogit
MaxClasses == 3    \* classes of the classifier head
MaxSteps == 3      \* training steps of one key thread

(* --------------------------- tensor algebra --------------------------- *)
\* The array f over 1..n as an explicit tuple (its entries computed once).
Arr(f) == f \o <<>>

RECURSIVE Prod(_)
Prod(s) == IF s = <<>> THEN 1 ELSE Head(s) * Prod(Tail(s))

\* Row-major multi-index of flat offset k (0-based) in a tensor of this shape.
RECURSIVE Unravel(_, _)
Unravel(k, shape) ==
    IF shape = <<>> THEN <<>>
    ELSE LET inner == Prod(Tail(shape))
         IN <<k \div inner>> \o Unravel(k % inner, Tail(shape))

\* Flat offset (0-based) of a multi-index.
RECURSIVE Ravel(_, _)
Ravel(idx, shape) ==
    IF shape = <<>> THEN 0
    ELSE Head(idx) * Prod(Tail(shape)) + Ravel(Tail(idx), Tail(shape))

\* x.reshape(shape): the same flat data under another shape.
Reshape(t, shape) == [shape |-> shape, data |-> t.data]

\* jnp.einsum with a pure axis permutation: output axis i is input axis perm[i].
Einsum(t, perm) ==
    LET oshape == [i \in 1..Len(perm) |-> t.shape[perm[i]]]
        src(k) == LET oi == Unravel(k, oshape)
                      ii == [a \in 1..Len(perm) |->
                                oi[CHOOSE i \in 1..Len(perm) : perm[i] = a]]
                  IN Ravel(ii, t.shape)
    IN [shape |-> oshape,
        data  |-> Arr([k \in 1..Prod(oshape) |-> t.data[src(k - 1) + 1]])]

\* int(n ** .5)
Isqrt(n) == CHOOSE r \in 0..n : r * r <= n /\ (r + 1) * (r + 1) > n

(* ----------------------------- patch codec ---------------------------- *)
\* "chpwq->hwpqc"
PatchifyPerm == <<2, 4, 3, 5, 1>>

\* 'hwpqc->chqwp': the two in-patch axes exchanged
UnpatchifyPermSwapped == <<5, 1, 4, 2, 3>>

\* 'hwpqc->chpwq'
UnpatchifyPerm == <<5, 1, 3, 2, 4>>

\* The assertion of create_patches on one (3, H, W) sample.
create_patches_ok(x, p) ==
    x.shape[2] = x.shape[3] /\ x.shape[2] % p = 0

\* create_patches on one sample (the body under vmap).
create_patches(x, p) ==
    LET h == x.shape[2] \div p
        w == h
        r1 == Reshape(x, <<3, h, p, w, p>>)
        r2 == Einsum(r1, PatchifyPerm)
    IN Reshape(r2, <<h * w, p * p * 3>>)

\* The assertion of recreate_images on one (L, p*p*3) sample.
recreate_images_ok(x) ==
    Isqrt(x.shape[1]) * Isqrt(x.shape[1]) = x.shape[1]

\* recreate_images on one sample (the body under vmap).
recreate_images(x, p) ==
    LET h == Isqrt(x.shape[1])
        w == h
        r1 == Reshape(x, <<h, w, p, p, 3>>)
        r2 == Einsum(r1, UnpatchifyPerm)
    IN Reshape(r2, <<3, h * p, h * p>>)

\* A channel-first test image of side H whose pixels all differ.
Image(H, s) ==
    [shape |-> <<3, H, H>>,
     data  |-> Arr([k \in 1..(3 * H * H) |-> ((k - 1) + s) % (3 * H * H)])]

NoRet == [status |-> "none"]

Init ==
    /\ op = "init"
    /\ args = [none |-> TRUE]
    /\ ret = NoRet
    /\ key = <<>>
    /\ used = {}
    /\ step = 0

\* A call of the jitted, vmapped create_patches(x, p) on a batch of B images
\* of side H: the batch is a sequence of samples, each mapped on its own.
CreatePatches ==
    /\ op = "init"
    /\ \E B \in 1..MaxB, H \in 1..MaxH :
        \E p \in 1..H, ss \in [1..B -> 0..MaxShift] :
          LET x == [b \in 1..B |-> Image(H, ss[b])]
          IN /\ op' = "create_patches"
             /\ args' = [x |-> x, p |-> p]
             /\ ret' = IF \A b \in 1..B : create_patches_ok(x[b], p)
                       THEN [status |-> "ok",
                             patches |-> Arr([b \in 1..B |-> create_patches(x[b], p)])]
                       ELSE [status |-> "AssertionError"]
             /\ UNCHANGED <<key, used, step>>

\* A call of recreate_images on the patches the previous call returned.
RecreateImages ==
    /\ op = "create_patches"
    /\ ret.status = "ok"
    /\ op' = "recreate_images"
    /\ args' = args
    /\ ret' = IF \A b \in 1..Len(ret.patches) : recreate_images_ok(ret.patches[b])
              THEN [status |-> "ok", patches |-> ret.patches,
                    imgs |-> Arr([b \in 1..Len(ret.patches) |->
                                    recreate_images(ret.patches[b], args.p)])]
              ELSE [status |-> "AssertionError"]
    /\ UNCHANGED <<key, used, step>>

\* The call returns; its per-batch tensors are dropped.
Return ==
    /\ op \notin {"init", "train"}
    /\ op' = "init"
    /\ args' = [none |-> TRUE]
    /\ ret' = NoRet
    /\ UNCHANGED <<key, used, step>>

NextCodec == CreatePatches \/ RecreateImages \/ Return

SpecCodec == Init /\ [][NextCodec]_vars

(* C1: for every channel-first image of side H divisible by p, in every   *)
(* sample of a batch, recreate_images(create_patches(x, p), p) equals x    *)
(* element for element.                                                    *)
C1_RoundTrip ==
    op = "recreate_images" =>
        /\ ret.status = "ok"
        /\ \A b \in 1..Len(args.x) : ret.imgs[b] = args.x[b]

C1_Witness ==
    /\ op = "recreate_images"
    /\ ret.status = "ok"
    /\ Len(args.x) = 2
    /\ args.x[1] # args.x[2]
    /\ args.x[1].shape[2] = 4
    /\ args.p = 2
    /\ ret.imgs = args.x

(* ------------------------------ masking ------------------------------- *)
\* 2 ** e
RECURSIVE Pow2(_)
Pow2(e) == IF e = 0 THEN 1 ELSE 2 * Pow2(e - 1)

\* Mask ratios num/den in [0, 1) that are binary fractions: on these the
\* floating-point arithmetic of the code is exact.
Ratios ==
    UNION {{[num |-> n, den |-> Pow2(e)] : n \in 0..(Pow2(e) - 1)} : e \in 0..MaxExp}

\* L*(1-mask_ratio) rounded up
KeepCeil(L, r) == (L * (r.den - r.num) + r.den - 1) \div r.den

\* int(L*(1-mask_ratio))
Keep(L, r) == (L * (r.den - r.num)) \div r.den

\* jnp.argsort (a stable sort): the 0-based indices of v in ascending order
\* of value, equal values in index order.
Argsort(v) ==
    LET n == Len(v)
        rank == Arr([i \in 1..n |->
                    Cardinality({j \in 1..n : v[j] < v[i] \/ (v[j] = v[i] /\ j < i)})])
    IN Arr([r \in 1..n |-> (CHOOSE i \in 1..n : rank[i] = r - 1) - 1])

\* x[ids]: gather by 0-based indices.
Take(x, ids) == Arr([k \in 1..Len(ids) |-> x[ids[k] + 1]])

\* random_masking with the mask left in shuffled order (mask[ids_shuffle])
random_masking_unrestored(x, mask_ratio, noise) ==
    LET L == Len(x)
        keep == Keep(L, mask_ratio)
        ids_shuffle == Argsort(noise)
        ids_restore == Argsort(ids_shuffle)
        ids_keep == SubSeq(ids_shuffle, 1, keep)
        mask0 == Arr([i \in 1..L |-> IF i <= keep THEN 0 ELSE 1])
    IN [x_masked |-> Take(x, ids_keep), mask |-> Take(mask0, ids_shuffle),
        ids_restore |-> ids_restore, ids_shuffle |-> ids_shuffle,
        ids_keep |-> ids_keep]

\* random_masking on one sample (the body under vmap): x is the sequence of
\* the L rows, noise stands for jax.random.uniform(key, shape=(L,)).
random_masking(x, mask_ratio, noise) ==
    LET L == Len(x)
        keep == Keep(L, mask_ratio)
        ids_shuffle == Argsort(noise)
        ids_restore == Argsort(ids_shuffle)
        ids_keep == SubSeq(ids_shuffle, 1, keep)
        mask0 == Arr([i \in 1..L |-> IF i <= keep THEN 0 ELSE 1])
    IN [x_masked |-> Take(x, ids_keep), mask |-> Take(mask0, ids_restore),
        ids_restore |-> ids_restore, ids_shuffle |-> ids_shuffle,
        ids_keep |-> ids_keep]

\* The embedding rows of a batch: row i of sample b is the tag
\* <<"patch", b, i>>, i the 0-based patch index.
Rows(B, L) == Arr([b \in 1..B |-> Arr([i \in 1..L |-> <<"patch", b, i - 1>>])])

\* A call of the jitted, vmapped random_masking on a batch of B samples of
\* L rows, each sample with its own noise.
RandomMasking ==
    /\ op = "init"
    /\ \E B \in 1..MaxB, L \in 1..MaxL :
        /\ B * L <= MaxCells
        /\ \E r \in Ratios, noise \in [1..B -> [1..L -> 0..MaxNoise]] :
             LET x == Rows(B, L)
             IN /\ op' = "random_masking"
                /\ args' = [x |-> x, mask_ratio |-> r, noise |-> noise]
                /\ ret' = [status |-> "ok",
                           out |-> [b \in 1..B |-> random_masking(x[b], r, noise[b])]]
                /\ UNCHANGED <<key, used, step>>

NextMask == RandomMasking \/ Return

SpecMask == Init /\ [][NextMask]_vars

\* The set of the entries of a sequence.
Range(s) == {s[i] : i \in 1..Len(s)}

RECURSIVE SumSeq(_)
SumSeq(s) == IF s = <<>> THEN 0 ELSE Head(s) + SumSeq(Tail(s))

(* C2: in random_masking, for every sample and noise draw, ids_restore is  *)
(* the inverse permutation of ids_shuffle, and the mask is in original     *)
(* patch order: mask[j] = 0 exactly when j is in ids_keep, 1 otherwise.    *)
C2_RestoreInverse ==
    op = "random_masking" =>
        \A b \in 1..Len(args.x) :
            LET o == ret.out[b]
                L == Len(args.x[b])
            IN /\ Range(o.ids_shuffle) = 0..(L - 1)
               /\ \A i \in 0..(L - 1) : o.ids_restore[o.ids_shuffle[i + 1] + 1] = i
               /\ \A j \in 0..(L - 1) :
                    o.mask[j + 1] = (IF j \in Range(o.ids_keep) THEN 0 ELSE 1)

C2_Witness ==
    /\ op = "random_masking"
    /\ Len(args.x) = 2
    /\ Len(args.x[1]) = 3
    /\ ret.out[1].ids_shuffle = <<2, 0, 1>>
    /\ ret.out[1].ids_restore = <<1, 2, 0>>
    /\ ret.out[1].mask = <<1, 1, 0>>
    /\ ret.out[2].ids_shuffle # ret.out[1].ids_shuffle

(* C3: for every L >= 1 and mask_ratio in [0, 1), random_masking returns   *)
(* for each sample exactly keep = floor(L * (1 - mask_ratio)) visible rows *)
(* and a mask whose entries sum to L - keep.                               *)
C3_MaskConservation ==
    op = "random_masking" =>
        \A b \in 1..Len(args.x) :
            LET o == ret.out[b]
                L == Len(args.x[b])
                r == args.mask_ratio
                keep == CHOOSE k \in 0..L :
                            /\ k * r.den <= L * (r.den - r.num)
                            /\ (k + 1) * r.den > L * (r.den - r.num)
            IN /\ Len(o.x_masked) = keep
               /\ SumSeq(o.mask) = L - keep

C3_Witness ==
    /\ op = "random_masking"
    /\ Len(args.x[1]) = 3
    /\ args.mask_ratio = [num |-> 1, den |-> 2]
    /\ Len(ret.out[1].x_masked) = 1
    /\ SumSeq(ret.out[1].mask) = 2

(* ---------------------------- grid masking ---------------------------- *)
\* assert mask_ratio >= .5
grid_masking_ok_from_half(mask_ratio) == 2 * mask_ratio.num >= mask_ratio.den

\* assert mask_ratio == .5 or mask_ratio == .75
grid_masking_ok(mask_ratio) ==
    \/ 2 * mask_ratio.num = mask_ratio.den
    \/ 4 * mask_ratio.num = 3 * mask_ratio.den

\* int(1/(1-mask_ratio))
GridStrideNotHalved(mask_ratio) == mask_ratio.den \div (mask_ratio.den - mask_ratio.num)

\* int(1/(1-mask_ratio))//2
GridStride(mask_ratio) == (mask_ratio.den \div (mask_ratio.den - mask_ratio.num)) \div 2

\* list(range(a, b, s)) for a <= b, s > 0
PyRange(a, b, s) == Arr([k \in 1..((b - a + s - 1) \div s) |-> a + (k - 1) * s])

\* .flatten() of a list of lists
RECURSIVE Flatten(_)
Flatten(ss) == IF ss = <<>> THEN <<>> ELSE Head(ss) \o Flatten(Tail(ss))

\* grid_masking on one sample (the body under vmap) once its assertion holds.
grid_masking(x, mask_ratio) ==
    LET L == Len(x)
        nb_patches == Isqrt(L)
        keep == GridStride(mask_ratio)
        ids_restore == Arr([i \in 1..L |-> i - 1])
        even_rows == PyRange(0, nb_patches, 2)
        ids_keep == Flatten([k \in 1..Len(even_rows) |->
                        PyRange(even_rows[k] * nb_patches,
                                (even_rows[k] + 1) * nb_patches, keep)])
        kept == Range(ids_keep)
        mask1 == Arr([i \in 1..L |-> IF (i - 1) \in kept THEN 0 ELSE 1])
    IN [x_masked |-> Take(x, ids_keep), mask |-> Take(mask1, ids_restore),
        ids_restore |-> ids_restore, ids_keep |-> ids_keep]

\* The ratios grid_masking is called with: the binary fractions and 0.6.
GridRatios == Ratios \cup {[num |-> 3, den |-> 5]}

\* A call of the jitted, vmapped grid_masking on a batch of B samples of an
\* n x n patch grid.
GridMasking ==
    /\ op = "init"
    /\ \E B \in 1..MaxB, n \in 1..MaxGrid, r \in GridRatios :
         LET x == Rows(B, n * n)
         IN /\ op' = "grid_masking"
            /\ args' = [x |-> x, mask_ratio |-> r, n |-> n]
            /\ ret' = IF grid_masking_ok(r)
                      THEN [status |-> "ok",
                            out |-> [b \in 1..B |-> grid_masking(x[b], r)]]
                      ELSE [status |-> "AssertionError"]
            /\ UNCHANGED <<key, used, step>>

NextGrid == GridMasking \/ Return

SpecGrid == Init /\ [][NextGrid]_vars

\* The number of zero entries of a mask.
Zeros(mask) == Cardinality({i \in 1..Len(mask) : mask[i] = 0})

(* C5, as claimed: grid_masking with mask_ratio = 0.75 on an n x n grid, n *)
(* divisible by 4, returns a mask with exactly (n/2) * (n/4) zeros and a   *)
(* visible subset of that length (8 of 64 on an 8 x 8 grid).               *)
C5_AsClaimed ==
    (/\ op = "grid_masking"
     /\ ret.status = "ok"
     /\ 4 * args.mask_ratio.num = 3 * args.mask_ratio.den
     /\ args.n % 4 = 0) =>
        \A b \in 1..Len(args.x) :
            /\ Zeros(ret.out[b].mask) = (args.n \div 2) * (args.n \div 4)
            /\ Len(ret.out[b].x_masked) = (args.n \div 2) * (args.n \div 4)

(* C5, amended: grid_masking with mask_ratio = 0.75 on an n x n grid, n    *)
(* divisible by 4, returns a mask with exactly (n/2) * (n/2) zeros and a   *)
(* visible subset of that length (4 rows x 4 columns = 16 of 64 on an      *)
(* 8 x 8 grid).                                                            *)
C5_GridCount ==
    (/\ op = "grid_masking"
     /\ ret.status = "ok"
     /\ 4 * args.mask_ratio.num = 3 * args.mask_ratio.den
     /\ args.n % 4 = 0) =>
        \A b \in 1..Len(args.x) :
            /\ Zeros(ret.out[b].mask) = (args.n \div 2) * (args.n \div 2)
            /\ Len(ret.out[b].x_masked) = (args.n \div 2) * (args.n \div 2)

C5_Witness ==
    /\ op = "grid_masking"
    /\ ret.status = "ok"
    /\ args.mask_ratio = [num |-> 3, den |-> 4]
    /\ args.n = 8
    /\ Zeros(ret.out[1].mask) = 16
    /\ Len(ret.out[1].x_masked) = 16
    /\ ret.out[1].ids_keep =
         <<0, 2, 4, 6, 16, 18, 20, 22, 32, 34, 36, 38, 48, 50, 52, 54>>

(* C10: grid_masking called with a mask_ratio other than 0.5 or 0.75 fails *)
(* at call time, before any visible subset, mask or restore permutation is *)
(* returned.                                                               *)
C10_GridRejects ==
    (/\ op = "grid_masking"
     /\ 2 * args.mask_ratio.num # args.mask_ratio.den
     /\ 4 * args.mask_ratio.num # 3 * args.mask_ratio.den) =>
        /\ ret.status = "AssertionError"
        /\ "out" \notin DOMAIN ret

C10_Witness ==
    /\ op = "grid_masking"
    /\ args.mask_ratio = [num |-> 3, den |-> 5]
    /\ args.n = 4
    /\ ret = [status |-> "AssertionError"]

(* ------------------------- encoder and decoder ------------------------ *)
\* The configuration main.py builds the model with.
img_size == 32
patch_size == 4
nb_channels == 3

\* self.cls_token + self.position_embedding[:, :1, :], tiled over the batch
ClsToken(b) == <<"cls", b, 0>>

\* self.mask_token
MaskToken == <<"mask", 0, 0>>

\* The transformer blocks, layer norms and dense layers act on a sequence
\* position by position as far as its length and order go: the row at a
\* position stays the row of that position.
Blocks(x) == x

\* the masked rows without the class token
EncoderConcatNoCls(cls, x) == x

\* jnp.concatenate([cls_tokens, x], axis=1) on one sample
EncoderConcat(cls, x) == <<cls>> \o x

\* MAEEncoder.__call__ on a batch of B images of L patches; noise[b] stands
\* for the uniform draw from keys[b].
MAEEncoder(B, L, masking_func, mask_ratio, noise) ==
    LET x == Rows(B, L)
        m == Arr([b \in 1..B |->
                IF masking_func = "random"
                THEN random_masking(x[b], mask_ratio, noise[b])
                ELSE grid_masking(x[b], mask_ratio)])
        seq == Arr([b \in 1..B |-> EncoderConcat(ClsToken(b), m[b].x_masked)])
    IN [blocks_in |-> seq,
        x |-> [b \in 1..B |-> Blocks(seq[b])],
        mask |-> [b \in 1..B |-> m[b].mask],
        ids_restore |-> [b \in 1..B |-> m[b].ids_restore]]

\* The restore step of MAEDecoder.__call__ on one sample: strip the class
\* token, append mask tokens, gather with ids_restore, put the class token
\* back.
DecoderRestore(x, ids_restore) ==
    LET n_mask == Len(ids_restore) + 1 - Len(x)
        mask_tokens == Arr([k \in 1..n_mask |-> MaskToken])
        x_ == SubSeq(x, 2, Len(x)) \o mask_tokens
    IN SubSeq(x, 1, 1) \o Take(x_, ids_restore)

\* MAEDecoder.__call__: the restored sequences (class token first) and the
\* shape of the returned prediction.
MAEDecoder(x, ids_restore, p) ==
    LET B == Len(x)
        r == Arr([b \in 1..B |-> Blocks(DecoderRestore(x[b], ids_restore[b]))])
        y == Arr([b \in 1..B |-> SubSeq(r[b], 2, Len(r[b]))])
    IN [restored |-> r,
        y_shape |-> <<B, Len(y[1]), p * p * nb_channels>>]

\* MAEViT.__call__ for a model of an n x n patch grid with patch size p.
MAEViT(B, n, p, masking_func, mask_ratio, noise) ==
    IF masking_func = "grid" /\ ~grid_masking_ok(mask_ratio)
    THEN [status |-> "AssertionError"]
    ELSE LET e == MAEEncoder(B, n * n, masking_func, mask_ratio, noise)
             d == MAEDecoder(e.x, e.ids_restore, p)
         IN [status |-> "ok", blocks_in |-> e.blocks_in, mask |-> e.mask,
             ids_restore |-> e.ids_restore, restored |-> d.restored,
             y_shape |-> d.y_shape]

\* The noise draws a forward pass is explored with: ties (s = 0), ascending
\* (s = 1) and scrambled orders.
NoisePattern(L, s) == Arr([i \in 1..L |-> (s * i) % (L + 1)])

\* The (grid side, patch size) pairs of the models explored: the small ones
\* and the one main.py builds.
Geometries ==
    ((1..MaxSide) \X (1..MaxPatch)) \cup {<<img_size \div patch_size, patch_size>>}

\* A forward pass of a model built with masking_func = "random".
ForwardRandom ==
    /\ op = "init"
    /\ \E B \in 1..MaxB, g \in Geometries, r \in Ratios :
        \E ss \in [1..B -> 0..MaxShift] :
          LET noise == Arr([b \in 1..B |-> NoisePattern(g[1] * g[1], ss[b])])
          IN /\ op' = "forward"
             /\ args' = [B |-> B, n |-> g[1], p |-> g[2], masking_func |-> "random",
                         mask_ratio |-> r, noise |-> noise]
             /\ ret' = MAEViT(B, g[1], g[2], "random", r, noise)
             /\ UNCHANGED <<key, used, step>>

\* A forward pass of a model built with masking_func = "grid".
ForwardGrid ==
    /\ op = "init"
    /\ \E B \in 1..MaxB, g \in Geometries, r \in GridRatios :
          /\ op' = "forward"
          /\ args' = [B |-> B, n |-> g[1], p |-> g[2], masking_func |-> "grid",
                      mask_ratio |-> r, noise |-> <<>>]
          /\ ret' = MAEViT(B, g[1], g[2], "grid", r, <<>>)
          /\ UNCHANGED <<key, used, step>>

NextForward == ForwardRandom \/ ForwardGrid \/ Return

SpecForward == Init /\ [][NextForward]_vars

(* C4: under grid masking the decoder's restore step yields the sequence   *)
(* in original patch order: the token of every kept patch sits at that     *)
(* patch's original index (where mask = 0) and a mask token sits at every  *)
(* index where mask = 1.                                                   *)
C4_GridRestoreOrder ==
    (/\ op = "forward"
     /\ args.masking_func = "grid"
     /\ ret.status = "ok") =>
        \A b \in 1..args.B : \A j \in 0..(args.n * args.n - 1) :
            ret.restored[b][j + 2] =
                (IF ret.mask[b][j + 1] = 0 THEN <<"patch", b, j>> ELSE MaskToken)

\* floor(L * (1 - mask_ratio))
FloorKeep(L, r) ==
    CHOOSE k \in 0..L : /\ k * r.den <= L * (r.den - r.num)
                        /\ (k + 1) * r.den > L * (r.den - r.num)

(* C6, as claimed: with num_patches = (H/p)^2 and keep = floor(num_patches *)
(* * (1 - mask_ratio)), the sequence entering the encoder's blocks has     *)
(* length 1 + keep per sample, the class token first and unmasked, and the *)
(* decoder returns shape (B, num_patches, p*p*3).                          *)
C6_AsClaimed ==
    (op = "forward" /\ ret.status = "ok") =>
        LET L == args.n * args.n
        IN /\ \A b \in 1..args.B :
                /\ Len(ret.blocks_in[b]) = 1 + FloorKeep(L, args.mask_ratio)
                /\ ret.blocks_in[b][1] = ClsToken(b)
           /\ ret.y_shape = <<args.B, L, args.p * args.p * 3>>

(* C6, amended: the same, for a model built with random masking, or with   *)
(* grid masking on a patch grid of even side.                              *)
C6_Shapes ==
    (/\ op = "forward"
     /\ ret.status = "ok"
     /\ (args.masking_func = "random" \/ args.n % 2 = 0)) =>
        LET L == args.n * args.n
        IN /\ \A b \in 1..args.B :
                /\ Len(ret.blocks_in[b]) = 1 + FloorKeep(L, args.mask_ratio)
                /\ ret.blocks_in[b][1] = ClsToken(b)
           /\ ret.y_shape = <<args.B, L, args.p * args.p * 3>>

C6_Witness ==
    /\ op = "forward"
    /\ ret.status = "ok"
    /\ args.masking_func = "random"
    /\ args.B = 2 /\ args.n = 8 /\ args.p = 4
    /\ args.mask_ratio = [num |-> 3, den |-> 4]
    /\ Len(ret.blocks_in[1]) = 17 /\ Len(ret.blocks_in[2]) = 17
    /\ ret.y_shape = <<2, 64, 48>>

(* --------------------------- loss functions --------------------------- *)
\* jnp.sum(loss * mask) / jnp.sum(mask) over the whole batch, as the float
\* division computes it: 0/0 is NaN, returned like any other value.
MaskedMean(loss, mask) ==
    LET num == SumSeq([b \in 1..Len(mask) |->
                    SumSeq([i \in 1..Len(mask[b]) |-> loss[b][i] * mask[b][i]])])
        den == SumSeq([b \in 1..Len(mask) |-> SumSeq(mask[b])])
    IN [nan |-> (den = 0), num |-> num, den |-> den]

\* The body shared by mae_loss and mae_norm_pix_loss after the key split:
\* the forward pass, then the masked mean of the per-patch errors.  perr
\* stands for jnp.mean(jnp.square(y - target), axis=-1), y being the output
\* of the trained network.
ReconstructionLoss(B, n, p, masking_func, mask_ratio, noise, perr) ==
    LET f == MAEViT(B, n, p, masking_func, mask_ratio, noise)
    IN IF f.status # "ok" THEN [status |-> f.status]
       ELSE [status |-> "ok", mask |-> f.mask, y_shape |-> f.y_shape,
             loss |-> MaskedMean(perr, f.mask)]

\* The models a loss is computed for: those whose batch of per-patch errors
\* stays within MaxCells entries.
LossCall(name) ==
    /\ op = "init"
    /\ \E B \in 1..MaxB, n \in 1..MaxSide, p \in 1..MaxPatch :
        /\ B * n * n <= MaxCells
        /\ \E mf \in {"random", "grid"}, r \in Ratios, ss \in [1..B -> 0..MaxShift],
              perr \in [1..B -> [1..(n * n) -> 0..MaxErr]] :
             LET noise == Arr([b \in 1..B |-> NoisePattern(n * n, ss[b])])
             IN /\ op' = name
                /\ args' = [B |-> B, n |-> n, p |-> p, masking_func |-> mf,
                            mask_ratio |-> r, noise |-> noise, perr |-> perr]
                /\ ret' = ReconstructionLoss(B, n, p, mf, r, noise, perr)
                /\ UNCHANGED <<key, used, step>>

\* A call of mae_loss.
MaeLoss == LossCall("mae_loss")

\* A call of mae_norm_pix_loss: the target is standardised per patch before
\* the squared error is taken; the masked mean is the same.
MaeNormPixLoss == LossCall("mae_norm_pix_loss")

\* logits.argmax(axis=-1) on one row: the 0-based index of the first maximum.
Argmax(v) ==
    (CHOOSE i \in 1..Len(v) :
        /\ \A j \in 1..Len(v) : v[j] <= v[i]
        /\ \A j \in 1..(i - 1) : v[j] < v[i]) - 1

\* jax.nn.one_hot(k, C)
OneHot(k, C) == Arr([c \in 1..C |-> IF c - 1 = k THEN 1 ELSE 0])

\* acc = (preds == labels).mean(): the mean over all B x C components.
Accuracy(preds, labels) ==
    LET B == Len(labels)
        C == Len(labels[1])
    IN [num |-> Cardinality({bc \in (1..B) \X (1..C) :
                                preds[bc[1]][bc[2]] = labels[bc[1]][bc[2]]}),
        den |-> B * C]

\* A call of mae_cls_loss on a batch of B samples and C classes.  The logits
\* stand for the output of the trained classifier; the labels are one-hot.
MaeClsLoss ==
    /\ op = "init"
    /\ \E B \in 1..MaxB, C \in 2..MaxClasses :
        \E logits \in [1..B -> [1..C -> 0..MaxLogit]], cls \in [1..B -> 0..(C - 1)] :
          LET labels == Arr([b \in 1..B |-> OneHot(cls[b], C)])
              preds == Arr([b \in 1..B |-> OneHot(Argmax(logits[b]), Len(labels[1]))])
          IN /\ op' = "mae_cls_loss"
             /\ args' = [logits |-> logits, labels |-> labels]
             /\ ret' = [status |-> "ok", preds |-> preds,
                        acc |-> Accuracy(preds, labels)]
             /\ UNCHANGED <<key, used, step>>

\* Whether two shapes broadcast: aligned from the last axis, each pair of
\* sizes is equal or has a 1.
RECURSIVE Broadcastable(_, _)
Broadcastable(s1, s2) ==
    IF s1 = <<>> \/ s2 = <<>> THEN TRUE
    ELSE /\ \/ s1[Len(s1)] = s2[Len(s2)]
            \/ s1[Len(s1)] = 1
            \/ s2[Len(s2)] = 1
         /\ Broadcastable(SubSeq(s1, 1, Len(s1) - 1), SubSeq(s2, 1, Len(s2) - 1))

\* The body of mae_supervised_contrastive_loss after the key split: the
\* forward pass, features * (1 - mask) on the (B, L, p*p*3) features and
\* the (B, L) mask, then return None.
SupervisedContrastiveLoss(B, n, p, masking_func, mask_ratio, noise) ==
    LET f == MAEViT(B, n, p, masking_func, mask_ratio, noise)
    IN IF f.status # "ok" THEN [status |-> f.status]
       ELSE IF ~Broadcastable(f.y_shape, <<B, Len(f.mask[1])>>)
       THEN [status |-> "TypeError"]
       ELSE [status |-> "ok", value |-> "None"]

\* A call of mae_supervised_contrastive_loss.
MaeSupervisedContrastiveLoss ==
    /\ op = "init"
    /\ \E B \in 1..MaxB, n \in 1..MaxSide, p \in 1..MaxPatch :
        \E mf \in {"random", "grid"}, r \in Ratios, ss \in [1..B -> 0..MaxShift] :
          LET noise == Arr([b \in 1..B |-> NoisePattern(n * n, ss[b])])
          IN /\ op' = "mae_supervised_contrastive_loss"
             /\ args' = [B |-> B, n |-> n, p |-> p, masking_func |-> mf,
                         mask_ratio |-> r, noise |-> noise]
             /\ ret' = SupervisedContrastiveLoss(B, n, p, mf, r, noise)
             /\ UNCHANGED <<key, used, step>>

NextLoss ==
    MaeLoss \/ MaeNormPixLoss \/ MaeClsLoss \/ MaeSupervisedContrastiveLoss \/ Return

SpecLoss == Init /\ [][NextLoss]_vars

(* C7: when the mask returned by the model is all zero (as for mask_ratio  *)
(* = 0), mae_loss and mae_norm_pix_loss signal a failure to the caller     *)
(* instead of returning a loss computed from the division by a zero sum.   *)
C7_ZeroMaskFails ==
    op \in {"mae_loss", "mae_norm_pix_loss"} =>
        LET f == MAEViT(args.B, args.n, args.p, args.masking_func,
                        args.mask_ratio, args.noise)
        IN (/\ f.status = "ok"
            /\ \A b \in 1..args.B : SumSeq(f.mask[b]) = 0) =>
                ret.status # "ok"

(* C9: the accuracy returned by mae_cls_loss is the exact-match rate: the  *)
(* number of samples whose predicted one-hot vector equals the label       *)
(* one-hot vector in every component, divided by the number of samples.    *)
C9_ExactMatchRate ==
    op = "mae_cls_loss" =>
        LET B == Len(args.labels)
            matches == Cardinality({b \in 1..B : ret.preds[b] = args.labels[b]})
        IN ret.acc.num * B = matches * ret.acc.den

(* C11: mae_supervised_contrastive_loss fails explicitly on every call and *)
(* never returns a placeholder value such as None to the caller.           *)
C11_SupConFails ==
    op = "mae_supervised_contrastive_loss" =>
        /\ ret.status # "ok"
        /\ "value" \notin DOMAIN ret

(* ------------------------ pseudo-random key thread -------------------- *)
\* jax.random.split(key, n): n keys derived from key.  A key is the path of
\* its derivation from the seed key, so that two keys are equal exactly
\* when they were derived the same way.
Split(k, n) == Arr([i \in 1..n |-> Append(k, i - 1)])

\* the same split, with masked_rng returned as the next key
LossKeysMaskedReturned(k) ==
    LET ks == Split(k, 4)
    IN [key |-> ks[4], dropout |-> ks[2], drop_path |-> ks[3], masked |-> ks[4]]

\* key, dropout_apply_rng, drop_path_apply_rng, masked_rng =
\*     jax.random.split(key, 4), the first being the key the loss returns
LossKeys(k) ==
    LET ks == Split(k, 4)
    IN [key |-> ks[1], dropout |-> ks[2], drop_path |-> ks[3], masked |-> ks[4]]

\* keys = jax.random.split(key, x.shape[0]) in the encoder
SampleKeys(masked_rng, rows) == Split(masked_rng, rows)

\* The implemented loss functions.
LossFns ==
    {"mae_loss", "mae_norm_pix_loss", "mae_cls_loss",
     "mae_self_supervised_contrastive_loss"}

\* x.shape[0] of the batch the model is applied to: the contrastive loss
\* concatenates the two views of its B samples.
BatchRows(fn, B) ==
    IF fn = "mae_self_supervised_contrastive_loss" THEN 2 * B ELSE B

\* One use of a key.
Use(k, what, b, fn, t) == [key |-> k, use |-> what, sample |-> b, by |-> fn, step |-> t]

\* One training step: a loss function is called with the key the previous
\* call returned, and its returned key is kept for the next call.
TrainStep ==
    /\ step < MaxSteps
    /\ \E fn \in LossFns, B \in 1..MaxB :
         LET ks == LossKeys(key)
             rows == BatchRows(fn, B)
             sk == SampleKeys(ks.masked, rows)
             t == step + 1
         IN /\ op' = "train"
            /\ args' = [fn |-> fn, B |-> B, key |-> key]
            /\ ret' = [status |-> "ok", keys |-> ks, sample_keys |-> sk]
            /\ used' = used \cup
                   {Use(key, "split", 0, fn, t),
                    Use(ks.dropout, "dropout", 0, fn, t),
                    Use(ks.drop_path, "drop_path", 0, fn, t),
                    Use(ks.masked, "split", 0, fn, t)} \cup
                   {Use(sk[b], "masking", b, fn, t) : b \in 1..rows}
            /\ key' = ks.key
            /\ step' = t

NextKeys == TrainStep

SpecKeys == Init /\ [][NextKeys]_vars

(* C8: each loss function splits its key into four pairwise distinct       *)
(* sub-keys, uses three of them for dropout, drop-path and masking (the    *)
(* masking key split again into one key per sample) and returns the        *)
(* fourth; over a sequence of steps, each fed the key the previous one     *)
(* returned, no key is consumed by two uses or two steps, and the key held *)
(* for the next step was never consumed.                                   *)
C8_KeyThread ==
    /\ op = "train" =>
        /\ Cardinality({ret.keys.key, ret.keys.dropout,
                        ret.keys.drop_path, ret.keys.masked}) = 4
        /\ Cardinality(Range(ret.sample_keys)) = BatchRows(args.fn, args.B)
        /\ key = ret.keys.key
        /\ \A u \in used : u.step = step =>
              \/ u.use = "split" /\ u.key \in {args.key, ret.keys.masked}
              \/ u.use = "dropout" /\ u.key = ret.keys.dropout
              \/ u.use = "drop_path" /\ u.key = ret.keys.drop_path
              \/ u.use = "masking" /\ u.key = ret.sample_keys[u.sample]
    /\ \A u, v \in used : u.key = v.key => u = v
    /\ \A u \in used : u.key # key

C8_Witness ==
    /\ op = "train"
    /\ step = 3
    /\ args.fn = "mae_self_supervised_contrastive_loss"
    /\ args.B = 2
    /\ ret.keys.dropout = <<0, 0, 1>>
    /\ ret.keys.drop_path = <<0, 0, 2>>
    /\ ret.sample_keys = <<<<0, 0, 3, 0>>, <<0, 0, 3, 1>>, <<0, 0, 3, 2>>, <<0, 0, 3, 3>>>>
    /\ \E u \in used : u.step = 1 /\ u.use = "masking"
    /\ key = <<0, 0, 0>>
====
